---- MODULE Spec2Model ----
(***************************************************************************)
(* Model of Code/snf_multi_year_runner.py: the CMS SNF multi-year loader,  *)
(* county filter, measure pivot, facility table, composite score and trend *)
(* summary.                                                                *)
(*                                                                         *)
(* Representation.                                                         *)
(*   text       a Python str: a sequence of one-character strings          *)
(*   NaN        a missing cell (pandas NaN / None): the empty sequence;    *)
(*              read_csv never yields an empty string, it yields NaN       *)
(*   number     a numeric cell <<n>>, n in tenths (12.5 is <<125>>)        *)
(*   DataFrame  [columns |-> sequence of header names,                     *)
(*               index   |-> sequence of row labels,                       *)
(*               rows    |-> sequence of functions header -> cell]         *)
(***************************************************************************)
EXTENDS Integers, Sequences, FiniteSets, TLC

\* the inputs of run and its environment
VARIABLES county_csv,     \* the rows of the county CSV as read
          archive_dir,    \* the files of the archive directory matching the glob
          include_live,   \* run's include_live argument
          live_api        \* what the live fetch does: fails, or returns a table

\* run's position and its local variables (frames is archive_frames.copy())
VARIABLES pc, counties, frames, snf_raw, snf_filtered, facilities, quality,
          merged, pct_rank, trend_summary

\* the effects of run
VARIABLES output_dir,     \* whether output_dir exists
          written,        \* the output files written
          exit_status     \* "none" while running, then "zero" or "nonzero"

inputs == <<county_csv, archive_dir, include_live, live_api>>

vars == <<county_csv, archive_dir, include_live, live_api,
          pc, counties, frames, snf_raw, snf_filtered, facilities, quality,
          merged, pct_rank, trend_summary, output_dir, written, exit_status>>

(***************************************************************************)
(* Bounds of the model.                                                    *)
(***************************************************************************)
\* rows of the table handed to filter_to_counties in SpecFilter
MaxFilterRows == 2
\* entries of the county allow-list in SpecFilter
MaxAllowed == 2
\* rows of the long table in SpecPivot
MaxPivotRows == 3
\* providers of the table scored in SpecScore
MaxProviders == 3
\* archive files in Spec
MaxFiles == 2

(***************************************************************************)
(* Generic helpers.                                                        *)
(***************************************************************************)
Range(s) == {s[i] : i \in 1..Len(s)}

\* sequences over S of length lo..hi
SeqsBetween(S, lo, hi) == UNION {[1..n -> S] : n \in lo..hi}

\* the subsequence of s at the positions keep, order kept
SelectIdx(s, keep) ==
    LET Pos(k) == CHOOSE i \in keep : Cardinality({j \in keep : j < i}) = k - 1
    IN  [k \in 1..Cardinality(keep) |-> s[Pos(k)]]

RangeIndex(n) == [i \in 1..n |-> i - 1]

NaN == <<>>

isna(v) == v = NaN

\* pd.DataFrame()
EmptyFrame == [columns |-> <<>>, index |-> <<>>, rows |-> <<>>]

HasColumn(df, c) == c \in Range(df.columns)

\* df[c] = values (one per row): a new column is appended, an old one replaced
SetColumn(df, c, values) ==
    [columns |-> IF HasColumn(df, c) THEN df.columns ELSE Append(df.columns, c),
     index   |-> df.index,
     rows    |-> [i \in 1..Len(df.rows) |-> 
                   [k \in DOMAIN df.rows[i] \cup {c} |->
                       IF k = c THEN values[i] ELSE df.rows[i][k]]]]

\* df[mask]: the rows at the positions keep, labels kept
SelectRows(df, keep) ==
    [columns |-> df.columns,
     index   |-> SelectIdx(df.index, keep),
     rows    |-> SelectIdx(df.rows, keep)]

(***************************************************************************)
(* Text.                                                                   *)
(***************************************************************************)
LowerCase == <<"a","b","c","d","e","f","g","h","i","j","k","l","m",
               "n","o","p","q","r","s","t","u","v","w","x","y","z">>
UpperCase == <<"A","B","C","D","E","F","G","H","I","J","K","L","M",
               "N","O","P","Q","R","S","T","U","V","W","X","Y","Z">>

UpperChar(c) ==
    IF \E i \in 1..Len(LowerCase) : LowerCase[i] = c
    THEN UpperCase[CHOOSE i \in 1..Len(LowerCase) : LowerCase[i] = c]
    ELSE c

\* str.upper()
upper(s) == [i \in 1..Len(s) |-> UpperChar(s[i])]

IsSpace(c) == c \in {" ", "\t"}

RECURSIVE lstrip(_)
lstrip(s) == IF s # <<>> /\ IsSpace(Head(s)) THEN lstrip(Tail(s)) ELSE s

RECURSIVE rstrip(_)
rstrip(s) ==
    IF s # <<>> /\ IsSpace(s[Len(s)]) THEN rstrip(SubSeq(s, 1, Len(s) - 1)) ELSE s

\* str.strip()
strip(s) == rstrip(lstrip(s))

\* str.endswith(suffix)
endswith(s, suffix) ==
    /\ Len(s) >= Len(suffix)
    /\ SubSeq(s, Len(s) - Len(suffix) + 1, Len(s)) = suffix

\* str(val): a missing cell prints as "nan"
str(val) == IF isna(val) THEN <<"n","a","n">> ELSE val

SuffixCounty == <<" ","C","O","U","N","T","Y">>
SuffixParish == <<" ","P","A","R","I","S","H">>

\* normalize_county: upper, strip, then drop a trailing " COUNTY", then a
\* trailing " PARISH" (the loop visits the two suffixes once each, in order)
normalize_county(val) ==
    LET s0 == strip(upper(str(val)))
        s1 == IF endswith(s0, SuffixCounty)
              THEN SubSeq(s0, 1, Len(s0) - Len(SuffixCounty)) ELSE s0
        s2 == IF endswith(s1, SuffixParish)
              THEN SubSeq(s1, 1, Len(s1) - Len(SuffixParish)) ELSE s1
    IN  s2

\* Series.astype(str).str.strip().str.upper()
normalize_state(val) == upper(strip(str(val)))

(***************************************************************************)
(* Header names.  A header is an atomic string; c.lower() is tabulated for *)
(* the headers the model uses (all others are already lower case).         *)
(***************************************************************************)
lower_name(c) ==
    CASE c = "County Name"                    -> "county name"
      [] c = "County/Parish"                  -> "county/parish"
      [] c = "County"                         -> "county"
      [] c = "COUNTY"                         -> "county"
      [] c = "Provider State"                 -> "provider state"
      [] c = "State"                          -> "state"
      [] c = "Measure Code"                   -> "measure code"
      [] c = "Score"                          -> "score"
      [] c = "SCORE"                          -> "score"
      [] c = "CMS Certification Number (CCN)" -> "cms certification number (ccn)"
      [] c = "Federal Provider Number"        -> "federal provider number"
      [] c = "Provider Number"                -> "provider number"
      [] c = "Provider Name"                  -> "provider name"
      [] OTHER                                -> c

(***************************************************************************)
(* load_counties: strip every text cell, upper-case County and StateCode.  *)
(***************************************************************************)
load_counties(csv_rows) ==
    [columns |-> <<"County", "StateCode">>,
     index   |-> RangeIndex(Len(csv_rows)),
     rows    |-> [i \in 1..Len(csv_rows) |->
                    [County    |-> upper(strip(csv_rows[i].County)),
                     StateCode |-> upper(strip(csv_rows[i].StateCode))]]]

(***************************************************************************)
(* filter_to_counties.                                                     *)
(***************************************************************************)
CountyHeaders == {"county name", "county/parish", "county"}
StateHeaders  == {"provider state", "state"}

\* s = df[cols[0]].copy(); for c in cols[1:]: s = s.fillna(df[c])
RECURSIVE fill_left_to_right(_, _)
fill_left_to_right(row, cols) ==
    IF cols = <<>> THEN NaN
    ELSE IF ~isna(row[Head(cols)]) THEN row[Head(cols)]
    ELSE fill_left_to_right(row, Tail(cols))

\* variant: the allow-list taken as loaded, without lines 130-132
allowed_pairs_as_loaded(counties_df) ==
    {<<counties_df.rows[i].County, counties_df.rows[i].StateCode>> :
        i \in 1..Len(counties_df.rows)}

\* counties_norm and allowed: the allow-list, normalized like the data
allowed_pairs(counties_df) ==
    {<<normalize_county(counties_df.rows[i].County),
       normalize_state(counties_df.rows[i].StateCode)>> :
        i \in 1..Len(counties_df.rows)}

filter_to_counties(df, counties_df) ==
    LET county_cols == SelectSeq(df.columns, LAMBDA c : lower_name(c) \in CountyHeaders)
        state_cols  == SelectSeq(df.columns, LAMBDA c : lower_name(c) \in StateHeaders)
        n           == Len(df.rows)
        county_std  == [i \in 1..n |->
                          normalize_county(fill_left_to_right(df.rows[i], county_cols))]
        state_std   == [i \in 1..n |->
                          normalize_state(fill_left_to_right(df.rows[i], state_cols))]
        allowed     == allowed_pairs(counties_df)
        key         == [i \in 1..n |-> <<county_std[i], state_std[i]>>]
        df1         == SetColumn(df, "county_std", county_std)
        df2         == SetColumn(df1, "state_std", state_std)
        df3         == SetColumn(df2, "county_state_key", key)
    IN  IF county_cols = <<>> \/ state_cols = <<>>
        THEN df
        ELSE SelectRows(df3, {i \in 1..n : key[i] \in allowed})

(***************************************************************************)
(* Ordering of text (Python's str comparison).  Collation lists, in code   *)
(* point order, every element a compared text of the model is made of.  A  *)
(* literal the program only ever handles whole (a provider id, a measure   *)
(* code, the fixed file-name prefix, the label "current_api") is a single  *)
(* element of its text; it is placed where its first character sorts.      *)
(***************************************************************************)
ArchivePrefix == <<"Skilled_Nursing_Facility_Quality_Reporting_Program_Provider_Data_">>
CsvSuffix     == <<".csv">>

Collation ==
    <<".csv", "0", "015009", "1", "2", "3", "4", "445123", "445200", "445311", "5",
      "6", "7", "8", "9", "A", "B", "C", "D", "E", "F", "G", "H", "I", "J", "K", "L",
      "M", "N", "O", "P", "Q", "R", "S", "S_004_01_PPR_PD_RSRR",
      "S_005_02_DTC_RS_RATE", "S_006_01_MSPB_SCORE", "S_007_02_OBS_RATE",
      "S_013_02_OBS_RATE", "S_024_05_OBS_RATE", "S_025_05_OBS_RATE",
      "S_038_02_ADJ_RATE", "S_039_01_HAI_RS_RATE", "S_999_99_OTHER",
      "Skilled_Nursing_Facility_Quality_Reporting_Program_Provider_Data_", "T", "U",
      "V", "W", "X", "Y", "Z", "_", "a", "b", "c", "current_api", "d", "e", "f", "g",
      "h", "i", "j", "k", "l", "m", "n", "o", "p", "q", "r", "s", "t", "u", "v", "w",
      "x", "y", "z">>

Ord(e) == CHOOSE i \in 1..Len(Collation) : Collation[i] = e

RECURSIVE TextLess(_, _)
TextLess(a, b) ==
    IF b = <<>> THEN FALSE
    ELSE IF a = <<>> THEN TRUE
    ELSE IF Head(a) = Head(b) THEN TextLess(Tail(a), Tail(b))
    ELSE Ord(Head(a)) < Ord(Head(b))

\* the elements of a finite set as a sequence ascending under the order before
SortSet(S, before) ==
    [i \in 1..Cardinality(S) |->
        CHOOSE x \in S : Cardinality({y \in S : <<y, x>> \in before}) = i - 1]

(***************************************************************************)
(* Numbers.                                                                *)
(***************************************************************************)
Digits == <<"0","1","2","3","4","5","6","7","8","9">>

IsDigit(c) == c \in Range(Digits)

DigitValue(c) == (CHOOSE i \in 1..Len(Digits) : Digits[i] = c) - 1

AllDigits(s) == s # <<>> /\ \A i \in 1..Len(s) : IsDigit(s[i])

RECURSIVE DecimalValue(_)
DecimalValue(s) ==
    IF s = <<>> THEN 0
    ELSE 10 * DecimalValue(SubSeq(s, 1, Len(s) - 1)) + DigitValue(s[Len(s)])

\* pd.to_numeric(value, errors='coerce') on a Score cell, in tenths.  Covers
\* the texts the model draws: digits, digits "." one digit, and texts that are
\* no number at all; a missing cell stays missing.
to_numeric(v) ==
    IF isna(v) THEN NaN
    ELSE IF AllDigits(v) THEN <<10 * DecimalValue(v)>>
    ELSE IF /\ Len(v) >= 3
            /\ v[Len(v) - 1] = "."
            /\ AllDigits(SubSeq(v, 1, Len(v) - 2))
            /\ IsDigit(v[Len(v)])
         THEN <<10 * DecimalValue(SubSeq(v, 1, Len(v) - 2)) + DigitValue(v[Len(v)])>>
    ELSE NaN

(***************************************************************************)
(* MEASURE_MAP: measure code -> column label.                              *)
(***************************************************************************)
MeasureCodes ==
    {<<"S_038_02_ADJ_RATE">>, <<"S_013_02_OBS_RATE">>, <<"S_004_01_PPR_PD_RSRR">>,
     <<"S_006_01_MSPB_SCORE">>, <<"S_005_02_DTC_RS_RATE">>, <<"S_039_01_HAI_RS_RATE">>,
     <<"S_007_02_OBS_RATE">>, <<"S_024_05_OBS_RATE">>, <<"S_025_05_OBS_RATE">>}

MEASURE_MAP(code) ==
    CASE code = <<"S_038_02_ADJ_RATE">>    -> "Pressure Ulcer Rate"
      [] code = <<"S_013_02_OBS_RATE">>    -> "Fall with Major Injury Rate"
      [] code = <<"S_004_01_PPR_PD_RSRR">> -> "Preventable Readmission Rate"
      [] code = <<"S_006_01_MSPB_SCORE">>  -> "Medicare Spending Per Beneficiary (MSPB)"
      [] code = <<"S_005_02_DTC_RS_RATE">> -> "Discharge to Community Rate"
      [] code = <<"S_039_01_HAI_RS_RATE">> -> "Healthcare-Associated Infection Rate"
      [] code = <<"S_007_02_OBS_RATE">>    -> "Medication Review Rate"
      [] code = <<"S_024_05_OBS_RATE">>    -> "Self-Care at Discharge"
      [] code = <<"S_025_05_OBS_RATE">>    -> "Mobility at Discharge"

\* MEASURE_MAP.values(), in the dict's order
MeasureLabels ==
    <<"Pressure Ulcer Rate", "Fall with Major Injury Rate",
      "Preventable Readmission Rate", "Medicare Spending Per Beneficiary (MSPB)",
      "Discharge to Community Rate", "Healthcare-Associated Infection Rate",
      "Medication Review Rate", "Self-Care at Discharge", "Mobility at Discharge">>

(***************************************************************************)
(* pivot_measures.                                                         *)
(***************************************************************************)
NoColumn == ""

\* next((c for c in df.columns if c is one of matching), None)
FirstColumn(df, matching) ==
    LET hits == SelectSeq(df.columns, LAMBDA c : c \in matching)
    IN  IF hits = <<>> THEN NoColumn ELSE Head(hits)

\* 'measure' in c.lower() and 'code' in c.lower()
HasMeasureAndCode(c) == lower_name(c) \in {"measure code", "measure_code"}

\* 'provider' in c.lower() and 'number' in c.lower()
HasProviderAndNumber(c) ==
    lower_name(c) \in {"federal provider number", "provider number", "provider_number"}

KeyOf(row, provider_col) ==
    <<row[provider_col], row["snapshot_year"], row["snapshot_label"]>>

\* the order of the pivot's row index: provider, then year, then label
KeyLess(a, b) ==
    \/ TextLess(a[1], b[1])
    \/ a[1] = b[1] /\ a[2][1] < b[2][1]
    \/ a[1] = b[1] /\ a[2] = b[2] /\ TextLess(a[3], b[3])

\* variant: aggfunc="last", the last non-missing value
RECURSIVE last_valid(_)
last_valid(values) ==
    IF values = <<>> THEN NaN
    ELSE IF ~isna(values[Len(values)]) THEN values[Len(values)]
    ELSE last_valid(SubSeq(values, 1, Len(values) - 1))

\* GroupBy.first(): the first non-missing value, missing when there is none
RECURSIVE first_valid(_)
first_valid(values) ==
    IF values = <<>> THEN NaN
    ELSE IF ~isna(Head(values)) THEN Head(values)
    ELSE first_valid(Tail(values))

pivot_measures(df) ==
    LET measure_col  == IF HasColumn(df, "Measure Code") THEN "Measure Code"
                        ELSE FirstColumn(df, {c \in Range(df.columns) : HasMeasureAndCode(c)})
        provider_col == IF HasColumn(df, "CMS Certification Number (CCN)")
                        THEN "CMS Certification Number (CCN)"
                        ELSE FirstColumn(df, {c \in Range(df.columns) : HasProviderAndNumber(c)})
        score_col    == IF HasColumn(df, "Score") THEN "Score"
                        ELSE FirstColumn(df, {c \in Range(df.columns) : lower_name(c) = "score"})
    IN  IF measure_col = NoColumn \/ provider_col = NoColumn \/ score_col = NoColumn
        THEN EmptyFrame
        ELSE
        LET subset   == SelectIdx(df.rows,
                            {i \in 1..Len(df.rows) : df.rows[i][measure_col] \in MeasureCodes})
            score_numeric == [i \in 1..Len(subset) |-> to_numeric(subset[i][score_col])]
            \* groupby drops the rows with a missing group key
            grouped  == {i \in 1..Len(subset) :
                            /\ ~isna(subset[i][provider_col])
                            /\ ~isna(subset[i]["snapshot_year"])
                            /\ ~isna(subset[i]["snapshot_label"])}
            Cell(key, code) ==
                first_valid(SelectIdx(score_numeric,
                    {i \in grouped : /\ KeyOf(subset[i], provider_col) = key
                                     /\ subset[i][measure_col] = code}))
            \* the aggregated groups that hold a value (dropna(how="all"))
            groups   == {g \in {<<KeyOf(subset[i], provider_col), subset[i][measure_col]>> :
                                    i \in grouped} : ~isna(Cell(g[1], g[2]))}
            keys     == SortSet({g[1] : g \in groups},
                                {p \in {g[1] : g \in groups} \X {g[1] : g \in groups} :
                                    KeyLess(p[1], p[2])})
            codes    == SortSet({g[2] : g \in groups},
                                {p \in MeasureCodes \X MeasureCodes : TextLess(p[1], p[2])})
            labels   == [j \in 1..Len(codes) |-> MEASURE_MAP(codes[j])]
            id_cols  == <<"provider_id", "snapshot_year", "snapshot_label">>
        IN  [columns |-> id_cols \o labels,
             index   |-> RangeIndex(Len(keys)),
             rows    |-> [r \in 1..Len(keys) |->
                            [c \in Range(id_cols) \cup Range(labels) |->
                                IF c = "provider_id" THEN keys[r][1]
                                ELSE IF c = "snapshot_year" THEN keys[r][2]
                                ELSE IF c = "snapshot_label" THEN keys[r][3]
                                ELSE Cell(keys[r],
                                          CHOOSE code \in Range(codes) :
                                              MEASURE_MAP(code) = c)]]]

(***************************************************************************)
(* build_facility_table.                                                   *)
(***************************************************************************)
FacilityTargets ==
    <<"provider_id", "facility_name", "address", "city", "state", "zip_code",
      "county_name", "phone_number">>

Candidates(target) ==
    CASE target = "provider_id"   -> <<"CMS Certification Number (CCN)",
                                       "Federal Provider Number", "Provider Number",
                                       "provider_number">>
      [] target = "facility_name" -> <<"Provider Name", "Facility Name", "facility_name",
                                       "provider_name">>
      [] target = "address"       -> <<"Address Line 1", "Address", "address",
                                       "Street Address">>
      [] target = "city"          -> <<"City/Town", "City", "city">>
      [] target = "state"         -> <<"State", "state", "Provider State">>
      [] target = "zip_code"      -> <<"ZIP Code", "zip_code", "Zip Code", "zip">>
      [] target = "county_name"   -> <<"County/Parish", "County Name", "county_name",
                                       "County", "county">>
      [] target = "phone_number"  -> <<"Telephone Number", "Phone Number", "phone_number",
                                       "Phone", "phone">>

\* col_map[target]: the first candidate spelling among df.columns, or NoColumn
ColMap(df, target) ==
    LET hits == SelectSeq(Candidates(target), LAMBDA c : HasColumn(df, c))
    IN  IF hits = <<>> THEN NoColumn ELSE Head(hits)

\* variant: no row is dropped
keep_duplicates(df, cols) == df

\* DataFrame.drop_duplicates(subset=cols): the first row of every combination
drop_duplicates(df, cols) ==
    SelectRows(df, {i \in 1..Len(df.rows) :
        ~\E j \in 1..(i - 1) : \A c \in Range(cols) : df.rows[j][c] = df.rows[i][c]})

build_facility_table(df) ==
    LET mapped  == SelectSeq(FacilityTargets, LAMBDA t : ColMap(df, t) # NoColumn)
        sources == [k \in 1..Len(mapped) |-> ColMap(df, mapped[k])]
        keep    == SelectSeq(sources \o <<"snapshot_year", "snapshot_label">>,
                             LAMBDA c : HasColumn(df, c))
        Target(c) == IF \E k \in 1..Len(mapped) : sources[k] = c
                     THEN mapped[CHOOSE k \in 1..Len(mapped) : sources[k] = c]
                     ELSE c
        narrow  == [columns |-> keep,
                    index   |-> df.index,
                    rows    |-> [i \in 1..Len(df.rows) |->
                                   [c \in Range(keep) |-> df.rows[i][c]]]]
        dedup   == drop_duplicates(narrow, <<ColMap(df, "provider_id"), "snapshot_year">>)
    IN  IF ColMap(df, "provider_id") = NoColumn
        THEN EmptyFrame
        ELSE [columns |-> [k \in 1..Len(keep) |-> Target(keep[k])],
              index   |-> dedup.index,
              rows    |-> [i \in 1..Len(dedup.rows) |->
                             [t \in {Target(c) : c \in Range(keep)} |->
                                 dedup.rows[i][CHOOSE c \in Range(keep) : Target(c) = t]]]]

(***************************************************************************)
(* load_archives.  A file of the archive directory is                      *)
(*   [star |-> the text the glob's "*" matched, table |-> its CSV table];  *)
(* its name is the fixed prefix, the star and ".csv".                      *)
(***************************************************************************)
FileName(star) == ArchivePrefix \o star \o CsvSuffix

\* path.stem.split("_")[-1]: the stem is the prefix (which ends in "_") and the
\* star, so the last token is what follows the star's last "_"
RECURSIVE LastToken(_)
LastToken(star) ==
    IF \E i \in 1..Len(star) : star[i] = "_"
    THEN LastToken(SubSeq(star, (CHOOSE i \in 1..Len(star) : star[i] = "_") + 1, Len(star)))
    ELSE star

\* year_token[-4:]
LastFour(token) == SubSeq(token, IF Len(token) > 4 THEN Len(token) - 3 ELSE 1, Len(token))

\* int(year_token[-4:]), None on ValueError
SnapYear(star) ==
    LET digits == LastFour(LastToken(star))
    IN  IF AllDigits(digits) THEN <<DecimalValue(digits)>> ELSE NaN

\* df["snapshot_year"] = year; df["snapshot_label"] = label
Tagged(table, year, label) ==
    LET n == Len(table.rows)
    IN  SetColumn(SetColumn(table, "snapshot_year", [i \in 1..n |-> year]),
                  "snapshot_label", [i \in 1..n |-> label])

\* sorted(archive_dir.glob(...)), each file read and tagged
load_archives(dir) ==
    LET stars  == SortSet({f.star : f \in dir},
                          {p \in {f.star : f \in dir} \X {f.star : f \in dir} :
                              TextLess(FileName(p[1]), FileName(p[2]))})
        File(x) == CHOOSE f \in dir : f.star = x
    IN  [k \in 1..Len(stars) |->
            Tagged(File(stars[k]).table, SnapYear(stars[k]), FileName(stars[k]))]

\* fetch_current_snapshot on a successful download
fetch_current_snapshot(api) == Tagged(api.table, <<api.now_year>>, <<"current_api">>)

(***************************************************************************)
(* pd.concat(frames, ignore_index=True): the union of the columns in order *)
(* of first appearance; a cell of a column a frame lacks is missing.       *)
(***************************************************************************)
RECURSIVE UnionColumns(_)
UnionColumns(fs) ==
    IF fs = <<>> THEN <<>>
    ELSE LET before == UnionColumns(SubSeq(fs, 1, Len(fs) - 1))
         IN  before \o SelectSeq(fs[Len(fs)].columns, LAMBDA c : c \notin Range(before))

RECURSIVE AllRows(_)
AllRows(fs) == IF fs = <<>> THEN <<>> ELSE Head(fs).rows \o AllRows(Tail(fs))

concat(fs) ==
    LET cols == UnionColumns(fs)
        rows == AllRows(fs)
    IN  [columns |-> cols,
         index   |-> RangeIndex(Len(rows)),
         rows    |-> [i \in 1..Len(rows) |->
                        [c \in Range(cols) |->
                            IF c \in DOMAIN rows[i] THEN rows[i][c] ELSE NaN]]]

(***************************************************************************)
(* pd.merge(left, right, how="left", on=on).                               *)
(***************************************************************************)
JoinKeys == <<"provider_id", "snapshot_year", "snapshot_label">>

\* a key column missing on either side raises KeyError
MergeRaises(left, right, on) ==
    \E c \in Range(on) : ~HasColumn(left, c) \/ ~HasColumn(right, c)

RECURSIVE Flatten(_)
Flatten(ss) == IF ss = <<>> THEN <<>> ELSE Head(ss) \o Flatten(Tail(ss))

merge_left(left, right, on) ==
    LET extra == SelectSeq(right.columns, LAMBDA c : c \notin Range(on))
        cols  == left.columns \o extra
        Matches(i) == SelectIdx(right.rows,
                          {j \in 1..Len(right.rows) :
                              \A c \in Range(on) : right.rows[j][c] = left.rows[i][c]})
        Joined(l, r) == [c \in Range(cols) |-> IF c \in DOMAIN l THEN l[c] ELSE r[c]]
        Unmatched(l) == [c \in Range(cols) |-> IF c \in DOMAIN l THEN l[c] ELSE NaN]
        rows  == Flatten([i \in 1..Len(left.rows) |->
                    IF Matches(i) = <<>> THEN <<Unmatched(left.rows[i])>>
                    ELSE [k \in 1..Len(Matches(i)) |-> Joined(left.rows[i], Matches(i)[k])]])
    IN  [columns |-> cols, index |-> RangeIndex(Len(rows)), rows |-> rows]

(***************************************************************************)
(* Composite score.  A percentile rank is a fraction [num, den]: the       *)
(* average rank (method="average") is a multiple of 1/2, so the rank       *)
(* divided by the number of rows is num / den with den twice that number.  *)
(***************************************************************************)
\* variant: na_option="top", missing cells rank before every value
rank_pct_na_top(df, c) ==
    LET n       == Len(df.rows)
        valued  == {i \in 1..n : ~isna(df.rows[i][c])}
        missing == (1..n) \ valued
        Below(i) == Cardinality({j \in valued : df.rows[j][c][1] < df.rows[i][c][1]})
        Tied(i)  == Cardinality({j \in valued : df.rows[j][c][1] = df.rows[i][c][1]})
    IN  [i \in 1..n |->
            [num |-> IF i \in valued
                     THEN 2 * Cardinality(missing) + 2 * Below(i) + Tied(i) + 1
                     ELSE Cardinality(missing) + 1,
             den |-> 2 * n]]

\* variant: pct=False, the average rank itself
rank_not_pct(df, c) ==
    LET n       == Len(df.rows)
        valued  == {i \in 1..n : ~isna(df.rows[i][c])}
        missing == (1..n) \ valued
        Below(i) == Cardinality({j \in valued : df.rows[j][c][1] < df.rows[i][c][1]})
        Tied(i)  == Cardinality({j \in valued : df.rows[j][c][1] = df.rows[i][c][1]})
    IN  [i \in 1..n |->
            [num |-> IF i \in valued
                     THEN 2 * Below(i) + Tied(i) + 1
                     ELSE 2 * Cardinality(valued) + Cardinality(missing) + 1,
             den |-> 2]]

\* DataFrame.rank(pct=True, na_option="bottom", axis=0) on one column: missing
\* cells rank after every value and tie with each other
rank_pct(df, c) ==
    LET n       == Len(df.rows)
        valued  == {i \in 1..n : ~isna(df.rows[i][c])}
        missing == (1..n) \ valued
        Below(i) == Cardinality({j \in valued : df.rows[j][c][1] < df.rows[i][c][1]})
        Tied(i)  == Cardinality({j \in valued : df.rows[j][c][1] = df.rows[i][c][1]})
    IN  [i \in 1..n |->
            [num |-> IF i \in valued
                     THEN 2 * Below(i) + Tied(i) + 1
                     ELSE 2 * Cardinality(valued) + Cardinality(missing) + 1,
             den |-> 2 * n]]

RECURSIVE SumSeq(_)
SumSeq(s) == IF s = <<>> THEN 0 ELSE Head(s) + SumSeq(Tail(s))

\* [m for m in MEASURE_MAP.values() if m in merged.columns]
measure_cols(df) == SelectSeq(MeasureLabels, LAMBDA m : HasColumn(df, m))

\* merged[measure_cols].rank(pct=True, na_option="bottom", axis=0)
ranked(df) ==
    LET cols == measure_cols(df)
    IN  [i \in 1..Len(df.rows) |-> [c \in Range(cols) |-> rank_pct(df, c)[i]]]

\* .mean(axis=1): all the ranks of a row share the denominator
composite_raw(df) ==
    LET cols == measure_cols(df)
        r    == ranked(df)
    IN  [i \in 1..Len(df.rows) |->
            [num |-> SumSeq([k \in 1..Len(cols) |-> r[i][cols[k]].num]),
             den |-> r[i][cols[1]].den * Len(cols)]]

with_composite(df) ==
    IF measure_cols(df) # <<>> THEN SetColumn(df, "composite_raw", composite_raw(df))
    ELSE df

(***************************************************************************)
(* summarize_trends.                                                       *)
(***************************************************************************)
\* the measure labels in str order
LabelsSorted ==
    <<"Discharge to Community Rate", "Fall with Major Injury Rate",
      "Healthcare-Associated Infection Rate", "Medicare Spending Per Beneficiary (MSPB)",
      "Medication Review Rate", "Mobility at Discharge", "Pressure Ulcer Rate",
      "Preventable Readmission Rate", "Self-Care at Discharge">>

LabelOrd(m) == CHOOSE i \in 1..Len(LabelsSorted) : LabelsSorted[i] = m

\* a sequence of integers in ascending order
SortInts(s) ==
    LET S == {<<s[i], i>> : i \in 1..Len(s)}
    IN  SortSet(S, {p \in S \X S : \/ p[1][1] < p[2][1]
                                   \/ p[1][1] = p[2][1] /\ p[1][2] < p[2][2]})

\* Series.median(), as a fraction
median(s) ==
    LET sorted == SortInts(s)
        n      == Len(s)
    IN  IF n % 2 = 1 THEN [num |-> sorted[(n + 1) \div 2][1], den |-> 1]
        ELSE [num |-> sorted[n \div 2][1] + sorted[n \div 2 + 1][1], den |-> 2]

\* Series.mean(), as a fraction
mean(s) == [num |-> SumSeq(s), den |-> Len(s)]

\* variant: "count", the number of values
count_values(s) == Len(s)

\* Series.nunique()
nunique(s) == Cardinality(Range(s))

summarize_trends(quality_wide) ==
    IF quality_wide.columns = <<>> \/ quality_wide.rows = <<>>
    THEN quality_wide
    ELSE
    LET id_cols    == SelectSeq(JoinKeys, LAMBDA c : HasColumn(quality_wide, c))
        value_cols == SelectSeq(quality_wide.columns, LAMBDA c : c \notin Range(id_cols))
        \* melt: one row per value column and table row, column by column
        melted     == Flatten([k \in 1..Len(value_cols) |->
                         [i \in 1..Len(quality_wide.rows) |->
                            [c \in Range(id_cols) \cup {"measure", "score"} |->
                                IF c = "measure" THEN value_cols[k]
                                ELSE IF c = "score" THEN quality_wide.rows[i][value_cols[k]]
                                ELSE quality_wide.rows[i][c]]]])
        \* dropna(): "measure" is a header and never missing
        long_df    == SelectSeq(melted,
                         LAMBDA r : \A c \in Range(id_cols) \cup {"score"} : ~isna(r[c]))
        groups     == {<<long_df[i]["measure"], long_df[i]["snapshot_year"]>> :
                          i \in 1..Len(long_df)}
        ordered    == SortSet(groups,
                         {p \in groups \X groups :
                             \/ LabelOrd(p[1][1]) < LabelOrd(p[2][1])
                             \/ p[1][1] = p[2][1] /\ p[1][2][1] < p[2][2][1]})
        Members(g) == SelectSeq(long_df,
                         LAMBDA r : r["measure"] = g[1] /\ r["snapshot_year"] = g[2])
        Scores(g)  == [k \in 1..Len(Members(g)) |-> Members(g)[k]["score"][1]]
    IN  [columns |-> <<"measure", "snapshot_year", "facilities", "avg_score", "median_score">>,
         index   |-> RangeIndex(Len(ordered)),
         rows    |-> [k \in 1..Len(ordered) |->
                        [measure       |-> ordered[k][1],
                         snapshot_year |-> ordered[k][2],
                         facilities    |-> nunique([j \in 1..Len(Members(ordered[k])) |->
                                                      Members(ordered[k])[j]["provider_id"]]),
                         avg_score     |-> mean(Scores(ordered[k])),
                         median_score  |-> median(Scores(ordered[k]))]]]

(***************************************************************************)
(* run, step by step.                                                      *)
(***************************************************************************)
QualityFile == "snf_multi_year_quality.csv"
TrendFile   == "snf_trend_summary.csv"

\* lines 202-204
LoadInputs ==
    /\ pc = "start"
    /\ counties' = load_counties(county_csv)
    /\ frames' = load_archives(archive_dir)
    /\ pc' = "live"
    /\ UNCHANGED <<inputs, snf_raw, snf_filtered, facilities, quality, merged,
                   pct_rank, trend_summary, output_dir, written, exit_status>>

\* lines 205-210: a failing fetch is caught and only logged
FetchLive ==
    /\ pc = "live"
    /\ frames' = IF include_live /\ live_api.ok
                 THEN Append(frames, fetch_current_snapshot(live_api))
                 ELSE frames
    /\ pc' = "check"
    /\ UNCHANGED <<inputs, counties, snf_raw, snf_filtered, facilities, quality,
                   merged, pct_rank, trend_summary, output_dir, written, exit_status>>

\* variant: run without lines 212-213
CheckLoadedWithoutExit ==
    /\ pc = "check"
    /\ pc' = "filter"
    /\ snf_raw' = concat(frames)
    /\ UNCHANGED <<inputs, counties, frames, snf_filtered, facilities, quality,
                   merged, pct_rank, trend_summary, output_dir, written, exit_status>>

\* lines 212-216: SystemExit when nothing was loaded, else the concatenation
CheckLoaded ==
    /\ pc = "check"
    /\ IF frames = <<>>
       THEN /\ pc' = "aborted"
            /\ exit_status' = "nonzero"
            /\ UNCHANGED snf_raw
       ELSE /\ pc' = "filter"
            /\ snf_raw' = concat(frames)
            /\ UNCHANGED exit_status
    /\ UNCHANGED <<inputs, counties, frames, snf_filtered, facilities, quality,
                   merged, pct_rank, trend_summary, output_dir, written>>

\* lines 217-219
Filter ==
    /\ pc = "filter"
    /\ snf_filtered' = filter_to_counties(snf_raw, counties)
    /\ pc' = "extract"
    /\ UNCHANGED <<inputs, counties, frames, snf_raw, facilities, quality, merged,
                   pct_rank, trend_summary, output_dir, written, exit_status>>

\* lines 221-222
Extract ==
    /\ pc = "extract"
    /\ facilities' = build_facility_table(snf_filtered)
    /\ quality' = pivot_measures(snf_filtered)
    /\ pc' = "merge"
    /\ UNCHANGED <<inputs, counties, frames, snf_raw, snf_filtered, merged,
                   pct_rank, trend_summary, output_dir, written, exit_status>>

\* line 223: the KeyError of a missing key column is not caught
Merge ==
    /\ pc = "merge"
    /\ IF MergeRaises(quality, facilities, JoinKeys)
       THEN /\ pc' = "crashed"
            /\ exit_status' = "nonzero"
            /\ UNCHANGED merged
       ELSE /\ pc' = "score"
            /\ merged' = merge_left(quality, facilities, JoinKeys)
            /\ UNCHANGED exit_status
    /\ UNCHANGED <<inputs, counties, frames, snf_raw, snf_filtered, facilities,
                   quality, pct_rank, trend_summary, output_dir, written>>

\* lines 225-227; pct_rank is the value of the .rank(...) subexpression
Score ==
    /\ pc = "score"
    /\ pct_rank' = IF measure_cols(merged) # <<>> THEN ranked(merged) ELSE pct_rank
    /\ merged' = with_composite(merged)
    /\ pc' = "trend"
    /\ UNCHANGED <<inputs, counties, frames, snf_raw, snf_filtered, facilities,
                   quality, trend_summary, output_dir, written, exit_status>>

\* line 229
Trend ==
    /\ pc = "trend"
    /\ trend_summary' = summarize_trends(quality)
    /\ pc' = "mkdir"
    /\ UNCHANGED <<inputs, counties, frames, snf_raw, snf_filtered, facilities,
                   quality, merged, pct_rank, output_dir, written, exit_status>>

\* line 231
MakeDir ==
    /\ pc = "mkdir"
    /\ output_dir' = TRUE
    /\ pc' = "write_quality"
    /\ UNCHANGED <<inputs, counties, frames, snf_raw, snf_filtered, facilities,
                   quality, merged, pct_rank, trend_summary, written, exit_status>>

\* line 232
WriteQuality ==
    /\ pc = "write_quality"
    /\ written' = written \cup {QualityFile}
    /\ pc' = "write_trend"
    /\ UNCHANGED <<inputs, counties, frames, snf_raw, snf_filtered, facilities,
                   quality, merged, pct_rank, trend_summary, output_dir, exit_status>>

\* lines 233-234, and the normal return of main
WriteTrend ==
    /\ pc = "write_trend"
    /\ written' = written \cup {TrendFile}
    /\ pc' = "done"
    /\ exit_status' = "zero"
    /\ UNCHANGED <<inputs, counties, frames, snf_raw, snf_filtered, facilities,
                   quality, merged, pct_rank, trend_summary, output_dir>>

Next ==
    \/ LoadInputs
    \/ FetchLive
    \/ CheckLoaded
    \/ Filter
    \/ Extract
    \/ Merge
    \/ Score
    \/ Trend
    \/ MakeDir
    \/ WriteQuality
    \/ WriteTrend

(***************************************************************************)
(* The state in which run starts on given inputs.                          *)
(***************************************************************************)
RunOn(csv, dir, live, api) ==
    /\ county_csv = csv
    /\ archive_dir = dir
    /\ include_live = live
    /\ live_api = api
    /\ pc = "start"
    /\ counties = EmptyFrame
    /\ frames = <<>>
    /\ snf_raw = EmptyFrame
    /\ snf_filtered = EmptyFrame
    /\ facilities = EmptyFrame
    /\ quality = EmptyFrame
    /\ merged = EmptyFrame
    /\ pct_rank = <<>>
    /\ trend_summary = EmptyFrame
    /\ output_dir = FALSE
    /\ written = {}
    /\ exit_status = "none"

(***************************************************************************)
(* Inputs.                                                                 *)
(***************************************************************************)
ProviderList == <<<<"015009">>, <<"445123">>, <<"445200">>, <<"445311">>>>

CodeA       == <<"S_038_02_ADJ_RATE">>
CodeB       == <<"S_013_02_OBS_RATE">>
CodeOther   == <<"S_999_99_OTHER">>

Score2      == <<"2">>
Score4      == <<"4">>
Score7      == <<"7">>
Score12_5   == <<"1","2",".","5">>
ScoreNotAvailable == <<"N","o","t"," ","A","v","a","i","l","a","b","l","e">>

SullivanCounty == <<"S","u","l","l","i","v","a","n"," ","C","o","u","n","t","y">>
SullivanUpper  == <<"S","U","L","L","I","V","A","N">>
SullivanParish == <<" ","s","u","l","l","i","v","a","n"," ","p","a","r","i","s","h"," ">>
SullivanBoth   == <<"S","u","l","l","i","v","a","n"," ","P","a","r","i","s","h"," ","C","o","u","n","t","y">>
ScottCounty    == <<"S","c","o","t","t"," ","C","o","u","n","t","y">>
StateTN        == <<"T","N">>
StateTNLoose   == <<" ","t","n">>
StateVA        == <<"V","A">>

StarDec2023 == <<"D","e","c","2","0","2","3">>
StarDec2024 == <<"D","e","c","2","0","2","4">>
StarOct2024 == <<"O","c","t","2","0","2","4">>
StarLatest  == <<"l","a","t","e","s","t">>

\* the cell of column c in the CSV row of record rec
CellFor(c, rec) ==
    CASE c \in {"CMS Certification Number (CCN)", "Federal Provider Number",
                "Provider ID"}                   -> rec.provider
      [] c = "Provider Name"                     -> <<"Facility ">> \o rec.provider
      [] c \in {"County Name", "County"}         -> rec.county
      [] c = "County/Parish"                     -> rec.parish
      [] c \in {"Provider State", "State"}       -> rec.state
      [] c = "Measure Code"                      -> rec.code
      [] c = "Score"                             -> rec.score

Table(header, recs) ==
    [columns |-> header,
     index   |-> RangeIndex(Len(recs)),
     rows    |-> [i \in 1..Len(recs) |-> [c \in Range(header) |-> CellFor(c, recs[i])]]]

NoLive == [ok |-> FALSE]

HeaderNew ==
    <<"CMS Certification Number (CCN)", "Provider Name", "County/Parish", "State",
      "Measure Code", "Score">>
HeaderOld ==
    <<"Federal Provider Number", "Provider Name", "County Name", "Provider State",
      "Measure Code", "Score">>
HeaderNoScore ==
    <<"CMS Certification Number (CCN)", "Provider Name", "County/Parish", "State",
      "Measure Code">>
HeaderUnknownId ==
    <<"Provider ID", "Provider Name", "County/Parish", "State", "Measure Code", "Score">>

File(star, table) == [star |-> star, table |-> table]

AllowSullivan == <<[County |-> SullivanUpper, StateCode |-> StateTN]>>

\* a measure row of a provider of Sullivan County, TN
SullivanRec(p, code, score) ==
    [provider |-> p, county |-> SullivanCounty, parish |-> SullivanCounty,
     state |-> StateTN, code |-> code, score |-> score]

\* a measure row of a provider of Scott County, VA
ScottRec(p, code, score) ==
    [provider |-> p, county |-> ScottCounty, parish |-> ScottCounty,
     state |-> StateVA, code |-> code, score |-> score]

(***************************************************************************)
(* SpecFilter: run on one archive file whose county and state cells, and   *)
(* the allow-list, are drawn from texts that differ in case, padding and   *)
(* suffix.                                                                 *)
(***************************************************************************)
FilterHeaderOne ==
    <<"CMS Certification Number (CCN)", "County Name", "Provider State",
      "Measure Code", "Score">>
FilterHeaderTwo ==
    <<"CMS Certification Number (CCN)", "County/Parish", "County Name", "State",
      "Measure Code", "Score">>
FilterHeaderNone ==
    <<"CMS Certification Number (CCN)", "Provider State", "Measure Code", "Score">>

\* the (county, state) cells of a row under a header of one county column
CountyStateCells ==
    ({SullivanCounty, SullivanParish, SullivanBoth, ScottCounty} \X {StateTN})
        \cup ({SullivanCounty, ScottCounty} \X {StateTNLoose, StateVA})

FilterRecs(header) ==
    LET Rec(c, q, st) == [provider |-> ProviderList[1], county |-> c, parish |-> q,
                          state |-> st, code |-> CodeA, score |-> Score7]
    IN  IF header = FilterHeaderOne
        THEN {Rec(x[1], NaN, x[2]) : x \in CountyStateCells}
        ELSE IF header = FilterHeaderTwo
        THEN {Rec(c, q, StateTN) : c \in {NaN, ScottCounty}, q \in {NaN, SullivanCounty}}
        ELSE {Rec(NaN, NaN, StateTN)}

\* the rows a county CSV may hold, in file order
AllowEntries ==
    <<[County |-> SullivanUpper,  StateCode |-> StateTN],
      [County |-> SullivanCounty, StateCode |-> StateTNLoose],
      [County |-> ScottCounty,    StateCode |-> StateVA]>>

\* the county CSVs of at most MaxAllowed of these rows
AllowLists ==
    {SelectIdx(AllowEntries, picked) :
        picked \in {x \in SUBSET (1..Len(AllowEntries)) : Cardinality(x) <= MaxAllowed}}

InitFilter ==
    \E csv \in AllowLists, h \in {FilterHeaderOne, FilterHeaderTwo, FilterHeaderNone} :
        \E recs \in SeqsBetween(FilterRecs(h), 1, MaxFilterRows) :
            RunOn(csv, {File(StarOct2024, Table(h, recs))}, FALSE, NoLive)

SpecFilter == InitFilter /\ [][Next]_vars

(***************************************************************************)
(* SpecPivot: run on two archive files of the same year, whose measure     *)
(* rows are drawn freely.                                                  *)
(***************************************************************************)
PivotStars == <<StarDec2024, StarOct2024>>

PivotRecs ==
    {[file |-> f, rec |-> SullivanRec(x[1], x[2], x[3])] :
        f \in 1..Len(PivotStars),
        x \in {<<ProviderList[1], CodeA, Score12_5>>,
               <<ProviderList[1], CodeA, Score7>>,
               <<ProviderList[1], CodeA, ScoreNotAvailable>>,
               <<ProviderList[1], CodeOther, Score7>>,
               <<ProviderList[2], CodeA, Score7>>}}

\* the archive directory holding the drawn rows, each in its file, in order
PivotDir(drawn) ==
    {File(PivotStars[f],
          Table(HeaderNew, LET mine == SelectSeq(drawn, LAMBDA d : d.file = f)
                           IN  [k \in 1..Len(mine) |-> mine[k].rec])) :
        f \in {d.file : d \in Range(drawn)}}

InitPivot ==
    \E drawn \in SeqsBetween(PivotRecs, 1, MaxPivotRows) :
        RunOn(AllowSullivan, PivotDir(drawn), FALSE, NoLive)

SpecPivot == InitPivot /\ [][Next]_vars

(***************************************************************************)
(* SpecScore: run on one archive file in which every provider has, for     *)
(* each of two measures, a score or none.                                  *)
(***************************************************************************)
ScoreSlots == {ProviderList[i] : i \in 1..MaxProviders} \X {CodeA, CodeB}

\* one row per slot, in slot order, with the score drawn for it
SlotRecs(slots, choice) ==
    LET order == SortSet(slots, {p \in slots \X slots :
                     \/ TextLess(p[1][1], p[2][1])
                     \/ p[1][1] = p[2][1] /\ TextLess(p[1][2], p[2][2])})
    IN  [k \in 1..Len(order) |-> SullivanRec(order[k][1], order[k][2], choice[order[k]])]

InitScore ==
    \E choice \in [ScoreSlots -> {ScoreNotAvailable, Score7, Score12_5}] :
        RunOn(AllowSullivan,
              {File(StarDec2024, Table(HeaderNew, SlotRecs(ScoreSlots, choice)))},
              FALSE, NoLive)

SpecScore == InitScore /\ [][Next]_vars

(***************************************************************************)
(* SpecTrend: run on three archive files, two of the same year.            *)
(***************************************************************************)
TrendStars == {StarDec2023, StarDec2024, StarOct2024}

TrendSlots ==
    ({ProviderList[1], ProviderList[2]} \X TrendStars \X {CodeA})
        \cup ({ProviderList[1], ProviderList[2]} \X {StarDec2024} \X {CodeB})

TrendDir(choice) ==
    LET Slots(star) == {<<x[1], x[3]>> : x \in {y \in TrendSlots : y[2] = star}}
        Held(star)  == [x \in Slots(star) |-> choice[<<x[1], star, x[2]>>]]
    IN  {File(star, Table(HeaderNew, SlotRecs(Slots(star), Held(star)))) :
            star \in TrendStars}

InitTrend ==
    \E choice \in [TrendSlots -> {ScoreNotAvailable, Score2, Score4}] :
        RunOn(AllowSullivan, TrendDir(choice), FALSE, NoLive)

SpecTrend == InitTrend /\ [][Next]_vars

(***************************************************************************)
(* Spec: run from its start, on an archive directory of up to MaxFiles     *)
(* files whose headers follow different vintages, with or without the live *)
(* snapshot.                                                               *)
(***************************************************************************)
RunRecs ==
    {SullivanRec(ProviderList[1], CodeA, Score12_5),
     ScottRec(ProviderList[2], CodeA, Score12_5)}

RunTables ==
    {Table(h, <<rec>>) : h \in {HeaderNew, HeaderOld, HeaderNoScore, HeaderUnknownId},
                      rec \in RunRecs}

\* the directories: a table for each star of a set of at most MaxFiles stars
RunDirs ==
    UNION {{{File(star, content[star]) : star \in stars} :
               content \in [stars -> RunTables]} :
              stars \in {x \in SUBSET {StarDec2024, StarOct2024, StarLatest} : Cardinality(x) <= MaxFiles}}

\* pd.Timestamp.now().year
NowYears == {2024}

LiveChoices ==
    {<<FALSE, NoLive>>, <<TRUE, NoLive>>}
    \cup {<<TRUE, [ok |-> TRUE, table |-> t, now_year |-> y]>> :
             t \in {Table(HeaderNew, <<SullivanRec(ProviderList[1], CodeA, Score7)>>)},
             y \in NowYears}

Init ==
    \E dir \in RunDirs, live \in LiveChoices :
        RunOn(AllowSullivan, dir, live[1], live[2])

Spec == Init /\ [][Next]_vars


(***************************************************************************)
(* Properties.  The predicates below say how far run has come.             *)
(***************************************************************************)
AfterFilter ==
    pc \in {"extract", "merge", "score", "trend", "mkdir", "write_quality",
            "write_trend", "done", "crashed"}
AfterExtract ==
    pc \in {"merge", "score", "trend", "mkdir", "write_quality", "write_trend",
            "done", "crashed"}
AfterMerge  == pc \in {"score", "trend", "mkdir", "write_quality", "write_trend", "done"}
AfterScore  == pc \in {"trend", "mkdir", "write_quality", "write_trend", "done"}
AfterTrend  == pc \in {"mkdir", "write_quality", "write_trend", "done"}

RowsOf(df) == 1..Len(df.rows)

\* the leftmost non-missing cell of a row among the columns cols
Leftmost(row, cols) ==
    IF \E k \in 1..Len(cols) : ~isna(row[cols[k]])
    THEN row[cols[CHOOSE k \in 1..Len(cols) :
                     /\ ~isna(row[cols[k]])
                     /\ \A j \in 1..(k - 1) : isna(row[cols[j]])]]
    ELSE NaN

(***************************************************************************)
(* C1.  The normal form of a county and of a state, stated on its own: the *)
(* text in upper case without the white space around it and, for a county, *)
(* without a trailing " COUNTY" and then without a trailing " PARISH".     *)
(***************************************************************************)
Trimmed(s) ==
    LET inked == {i \in 1..Len(s) : ~IsSpace(s[i])}
    IN  IF inked = {} THEN <<>>
        ELSE SubSeq(s, CHOOSE i \in inked : \A j \in inked : i <= j,
                       CHOOSE i \in inked : \A j \in inked : j <= i)

WithoutSuffix(s, suffix) ==
    IF \E k \in 0..Len(s) : SubSeq(s, 1, k) \o suffix = s
    THEN SubSeq(s, 1, Len(s) - Len(suffix))
    ELSE s

CountyNormalForm(v) ==
    WithoutSuffix(WithoutSuffix(Trimmed(upper(str(v))), SuffixCounty), SuffixParish)
StateNormalForm(v) == Trimmed(upper(str(v)))

CountyLike(df) == SelectSeq(df.columns, LAMBDA c : lower_name(c) \in CountyHeaders)
StateLike(df)  == SelectSeq(df.columns, LAMBDA c : lower_name(c) \in StateHeaders)

\* the normalized (county, state) pair of row i of the loaded table
RawPair(i) ==
    <<CountyNormalForm(Leftmost(snf_raw.rows[i], CountyLike(snf_raw))),
      StateNormalForm(Leftmost(snf_raw.rows[i], StateLike(snf_raw)))>>

\* the normalized pairs of the entries of the county CSV
AllowListPairs ==
    {<<CountyNormalForm(county_csv[k].County), StateNormalForm(county_csv[k].StateCode)>> :
        k \in 1..Len(county_csv)}

\* row i of the loaded table is a row of the filtered table, cell for cell
Retained(i) ==
    \E j \in RowsOf(snf_filtered) :
        /\ snf_filtered.index[j] = snf_raw.index[i]
        /\ \A c \in Range(snf_raw.columns) : snf_filtered.rows[j][c] = snf_raw.rows[i][c]

\* C1: once filter_to_counties has run on a table that has a county column and
\* a state column, a row of the table is in the output if and only if its
\* normalized (county, state) pair is the normalized pair of some allow-list
\* entry, and the output holds no other row.
C1_FilterKeepsExactlyAllowed ==
    (AfterFilter /\ CountyLike(snf_raw) # <<>> /\ StateLike(snf_raw) # <<>>) =>
        /\ \A i \in RowsOf(snf_raw) : Retained(i) <=> RawPair(i) \in AllowListPairs
        /\ \A j \in RowsOf(snf_filtered) :
               \E i \in RowsOf(snf_raw) : snf_raw.index[i] = snf_filtered.index[j]
        /\ \A j, k \in RowsOf(snf_filtered) :
               snf_filtered.index[j] = snf_filtered.index[k] => j = k

\* the allow-list (SULLIVAN, TN) retains a "Sullivan County" / "TN" row and
\* excludes another row of the same table
C1_Witness ==
    /\ AfterFilter
    /\ county_csv = AllowSullivan
    /\ HasColumn(snf_raw, "County Name") /\ HasColumn(snf_raw, "Provider State")
    /\ \E i, k \in RowsOf(snf_raw) :
           /\ snf_raw.rows[i]["County Name"] = SullivanCounty
           /\ snf_raw.rows[i]["Provider State"] = StateTN
           /\ Retained(i)
           /\ RawPair(k) \notin AllowListPairs
           /\ ~Retained(k)

(***************************************************************************)
(* C2.                                                                     *)
(***************************************************************************)
\* the provider id of a row, read from the accepted spellings it has
ProviderOf(row) ==
    Leftmost(row, SelectSeq(Candidates("provider_id"), LAMBDA c : c \in DOMAIN row))

TripleOf(row) == <<ProviderOf(row), row["snapshot_year"], row["snapshot_label"]>>

HasTriple(row) == \A k \in 1..3 : ~isna(TripleOf(row)[k])

RecognizedCode(row) ==
    "Measure Code" \in DOMAIN row /\ row["Measure Code"] \in MeasureCodes

NumericScore(row) ==
    "Score" \in DOMAIN row /\ ~isna(to_numeric(row["Score"]))

\* the rows of the wide table that carry a triple
WideRows(df, triple) ==
    {q \in RowsOf(df) :
        /\ \A c \in Range(JoinKeys) : HasColumn(df, c)
        /\ <<df.rows[q]["provider_id"], df.rows[q]["snapshot_year"],
             df.rows[q]["snapshot_label"]>> = triple}

\* C2: when every loaded snapshot names its provider-id column by an accepted
\* spelling, every (provider, snapshot_year, snapshot_label) that has a numeric
\* score for a recognized measure code in the filtered table has a row in the
\* output of pivot_measures.
C2_NoRowLostToDrift ==
    (AfterExtract /\ \A k \in 1..Len(frames) :
                         \E c \in Range(Candidates("provider_id")) : HasColumn(frames[k], c)) =>
        \A i \in RowsOf(snf_filtered) :
            LET row == snf_filtered.rows[i]
            IN  (HasTriple(row) /\ RecognizedCode(row) /\ NumericScore(row)) =>
                    WideRows(quality, TripleOf(row)) # {}

(***************************************************************************)
(* C3.                                                                     *)
(***************************************************************************)
\* C3: when a source table was loaded and pivot_measures or
\* build_facility_table returned the empty table, run ends by completing:
\* both output files are written and the exit status is zero.
C3_PartialFailureStillCompletes ==
    (pc \in {"done", "crashed", "aborted"} /\ frames # <<>> /\ (quality = EmptyFrame \/ facilities = EmptyFrame)) =>
        /\ pc = "done"
        /\ exit_status = "zero"
        /\ written = {QualityFile, TrendFile}

(***************************************************************************)
(* C4.  pct_rank[i][c] is the percentile rank of row i in measure column c.*)
(***************************************************************************)
\* a <= b for fractions of positive denominator
FracLeq(a, b) == a.num * b.den <= b.num * a.den

PresentMeasures == {c \in Range(MeasureLabels) : HasColumn(merged, c)}

C8_CompositeInUnitInterval ==
    AfterScore =>
        IF PresentMeasures # {}
        THEN /\ HasColumn(merged, "composite_raw")
             /\ \A i \in RowsOf(merged) :
                    LET x == merged.rows[i]["composite_raw"]
                    IN  x.den > 0 /\ 0 <= x.num /\ x.num <= x.den
        ELSE ~HasColumn(merged, "composite_raw")

\* a composite strictly inside the interval, averaged over two measure columns
\* one of which has a missing cell
C8_Witness ==
    /\ AfterScore
    /\ Cardinality(PresentMeasures) = 2
    /\ \E i, j \in RowsOf(merged) : \E c \in PresentMeasures :
           /\ isna(merged.rows[j][c])
           /\ 0 < merged.rows[i]["composite_raw"].num
           /\ merged.rows[i]["composite_raw"].num < merged.rows[i]["composite_raw"].den

(***************************************************************************)
(* C5.                                                                     *)
(***************************************************************************)
\* no two rows of a table of key columns share (provider_id, snapshot_year,
\* snapshot_label)
KeyUnique(df) ==
    \A i, j \in RowsOf(df) :
        (\A c \in Range(JoinKeys) : df.rows[i][c] = df.rows[j][c]) => i = j

\* C5: the outputs of pivot_measures and of build_facility_table hold no two
\* rows with the same (provider_id, snapshot_year, snapshot_label), and the
\* left join has exactly one row per row of the pivot, in the pivot's order.
C5_JoinKeyUnique ==
    /\ AfterExtract => KeyUnique(quality) /\ KeyUnique(facilities)
    /\ AfterMerge =>
           /\ Len(merged.rows) = Len(quality.rows)
           /\ \A i \in RowsOf(quality) : \A c \in Range(quality.columns) :
                  merged.rows[i][c] = quality.rows[i][c]

\* the facility table dropped rows of the filtered table and the join ran on
\* several pivot rows
C5_Witness ==
    /\ AfterMerge
    /\ Len(facilities.rows) >= 2
    /\ Len(facilities.rows) < Len(snf_filtered.rows)
    /\ Len(quality.rows) >= 2
    /\ Len(merged.rows) = Len(quality.rows)

(***************************************************************************)
(* C6.                                                                     *)
(***************************************************************************)
\* C6: with no archive file and the live fetch disabled or failing, run, once
\* past its check of the loaded tables, has aborted with a non-zero exit
\* status and has created neither the output directory nor an output file;
\* with an archive file, a failing live fetch never aborts run.
C6_AbortsBeforeOutputs ==
    /\ (archive_dir = {} /\ ~(include_live /\ live_api.ok) /\ pc \notin {"start", "live", "check"}) =>
           /\ pc = "aborted"
           /\ exit_status = "nonzero"
           /\ ~output_dir
           /\ written = {}
    /\ pc = "aborted" => archive_dir = {} /\ ~(include_live /\ live_api.ok)
    /\ (archive_dir # {} /\ include_live /\ ~live_api.ok) =>
           /\ pc # "aborted"
           /\ pc \notin {"start", "live"} => Len(frames) = Cardinality(archive_dir)

\* run has aborted on an empty archive directory and a failed live fetch
C6_Witness ==
    /\ pc = "aborted"
    /\ archive_dir = {}
    /\ include_live /\ ~live_api.ok
    /\ exit_status = "nonzero"

(***************************************************************************)
(* C7.  Scores are held in tenths; averages and medians are fractions.     *)
(***************************************************************************)
\* the rows of the wide table with a score for measure m in year y
Scored(m, y) ==
    {i \in RowsOf(quality) :
        /\ HasColumn(quality, m)
        /\ quality.rows[i]["snapshot_year"] = y
        /\ ~isna(quality.rows[i][m])}

\* the (measure, snapshot_year) pairs some row of the wide table has a score for
ScoredPairs ==
    {g \in Range(MeasureLabels) \X {quality.rows[i]["snapshot_year"] : i \in RowsOf(quality)} :
        Scored(g[1], g[2]) # {}}

RECURSIVE ScoreTotal(_, _)
ScoreTotal(S, m) ==
    IF S = {} THEN 0
    ELSE LET i == CHOOSE x \in S : TRUE
         IN  quality.rows[i][m][1] + ScoreTotal(S \ {i}, m)

\* the score at position p when the scores of S are put in ascending order
ScoreAt(S, m, p) ==
    CHOOSE v \in {quality.rows[i][m][1] : i \in S} :
        /\ Cardinality({i \in S : quality.rows[i][m][1] < v}) < p
        /\ p <= Cardinality({i \in S : quality.rows[i][m][1] <= v})

\* row k of the trend table describes the scores of its (measure, year)
TrendRowRight(k) ==
    LET t == trend_summary.rows[k]
        S == Scored(t.measure, t.snapshot_year)
        n == Cardinality(S)
    IN  /\ t.facilities = Cardinality({quality.rows[i]["provider_id"] : i \in S})
        /\ t.avg_score.den > 0
        /\ t.avg_score.num * n = t.avg_score.den * ScoreTotal(S, t.measure)
        /\ t.median_score.den > 0
        /\ 2 * t.median_score.num =
               t.median_score.den * (ScoreAt(S, t.measure, (n + 1) \div 2)
                                     + ScoreAt(S, t.measure, n \div 2 + 1))

\* C7: the trend table has exactly one row for every (measure, snapshot_year)
\* some wide row has a score for and no other row; the row holds the number of
\* distinct providers with a score, the mean and the median of the scores; the
\* rows ascend by (measure, snapshot_year).
C7_TrendSummary ==
    (AfterTrend /\ quality.rows # <<>>) =>
        /\ {<<trend_summary.rows[k].measure, trend_summary.rows[k].snapshot_year>> :
               k \in RowsOf(trend_summary)} = ScoredPairs
        /\ Len(trend_summary.rows) = Cardinality(ScoredPairs)
        /\ \A k \in RowsOf(trend_summary) : TrendRowRight(k)
        /\ \A k \in 1..(Len(trend_summary.rows) - 1) :
               LET a == trend_summary.rows[k]
                   b == trend_summary.rows[k + 1]
               IN  \/ LabelOrd(a.measure) < LabelOrd(b.measure)
                   \/ a.measure = b.measure /\ a.snapshot_year[1] < b.snapshot_year[1]

\* two providers scoring 2 and 4 in a year: facilities 2, mean 3, median 3,
\* in a table of several rows
C7_Witness ==
    /\ AfterTrend
    /\ Len(trend_summary.rows) >= 3
    /\ \E k \in RowsOf(trend_summary) :
           LET t == trend_summary.rows[k]
               S == Scored(t.measure, t.snapshot_year)
           IN  /\ {quality.rows[i][t.measure][1] : i \in S} = {20, 40}
               /\ Cardinality(S) = 2
               /\ t.facilities = 2
               /\ t.avg_score.num = 30 * t.avg_score.den
               /\ t.median_score.num = 30 * t.median_score.den

(***************************************************************************)
(* C9.                                                                     *)
(***************************************************************************)
\* the rows of the filtered table for a triple and a recognized code, in order
GroupRows(triple, code) ==
    SelectIdx(snf_filtered.rows,
              {i \in RowsOf(snf_filtered) :
                  LET row == snf_filtered.rows[i]
                  IN  /\ RecognizedCode(row) /\ row["Measure Code"] = code
                      /\ "Score" \in DOMAIN row
                      /\ HasTriple(row) /\ TripleOf(row) = triple})

\* the (triple, code) groups of the filtered table
Groups ==
    {<<TripleOf(snf_filtered.rows[i]), snf_filtered.rows[i]["Measure Code"]>> :
        i \in {x \in RowsOf(snf_filtered) :
                  /\ RecognizedCode(snf_filtered.rows[x])
                  /\ "Score" \in DOMAIN snf_filtered.rows[x]
                  /\ HasTriple(snf_filtered.rows[x])}}

\* the wide cell of a triple and a code; missing when the table has none
WideCell(triple, code) ==
    IF HasColumn(quality, MEASURE_MAP(code)) /\ WideRows(quality, triple) # {}
    THEN quality.rows[CHOOSE q \in WideRows(quality, triple) : TRUE][MEASURE_MAP(code)]
    ELSE NaN

\* C9 as stated: the wide cell of a group holds the numeric coercion of the
\* score of the group's first row, missing when that score is not numeric.
C9_FirstRowWins ==
    AfterExtract =>
        \A g \in Groups :
            WideCell(g[1], g[2]) = to_numeric(GroupRows(g[1], g[2])[1]["Score"])

\* C9, amended: the wide cell of a group holds the numeric coercion of the
\* score of the group's first row whose score is numeric, and is missing only
\* when no row of the group has a numeric score; rows after that row never
\* change the cell.
C9_FirstNumericRowWins ==
    AfterExtract =>
        \A g \in Groups :
            LET rows    == GroupRows(g[1], g[2])
                numeric == {k \in 1..Len(rows) : NumericScore(rows[k])}
            IN  IF numeric = {}
                THEN isna(WideCell(g[1], g[2]))
                ELSE /\ ~isna(WideCell(g[1], g[2]))
                     /\ WideCell(g[1], g[2]) =
                            to_numeric(rows[CHOOSE k \in numeric :
                                                \A j \in numeric : k <= j]["Score"])

\* a group whose first score is not numeric, followed by two different
\* numeric scores: the cell holds the first of the two
C9_Witness ==
    /\ AfterExtract
    /\ \E g \in Groups :
           LET rows == GroupRows(g[1], g[2])
           IN  /\ Len(rows) = 3
               /\ ~NumericScore(rows[1])
               /\ NumericScore(rows[2]) /\ NumericScore(rows[3])
               /\ to_numeric(rows[2]["Score"]) # to_numeric(rows[3]["Score"])
               /\ WideCell(g[1], g[2]) = to_numeric(rows[2]["Score"])

(***************************************************************************)
(* C10.                                                                    *)
(***************************************************************************)
\* C10: after the left join, every joined row whose triple occurs in the
\* filtered table carries the facility name that the filtered rows of that
\* triple give, also when the provider occurs under two snapshot labels of one
\* snapshot_year.
C10_AttributesOfSameSnapshot ==
    AfterMerge =>
        \A m \in RowsOf(merged) : \A i \in RowsOf(snf_filtered) :
            LET row == snf_filtered.rows[i]
            IN  (/\ HasTriple(row)
                 /\ "Provider Name" \in DOMAIN row
                 /\ m \in WideRows(merged, TripleOf(row))) =>
                    /\ HasColumn(merged, "facility_name")
                    /\ merged.rows[m]["facility_name"] = row["Provider Name"]

====
